---- MODULE Spec2Model ----
(***************************************************************************)
(* Monthly activity report backend (src/main.py, src/schemas.py).          *)
(*                                                                         *)
(* Four specifications share this module:                                  *)
(*   Spec          the handlers that address one activity (create / get /  *)
(*                 update / delete), from an empty collection;             *)
(*   SpecQuery     the read-only handlers (list / dashboard / recap /      *)
(*                 export) over the collections Spec's handlers produce;   *)
(*   SpecSerialize serialize_doc applied once and twice to one record;     *)
(*   SpecWindow    the month-window computation on its own.                *)
(*                                                                         *)
(* Python values are tagged records: None, str (a sequence of one-char     *)
(* strings), numbers, date, datetime, ObjectId, list and dict.             *)
(***************************************************************************)
EXTENDS Integers, Sequences, FiniteSets, TLC

VARIABLES
    store,      \* the "activity" collection: sequence of documents, insertion order
    nextId,     \* the next ObjectId the store hands out
    req,        \* the request being answered
    resp,       \* the response of that request
    obj,        \* SpecSerialize: the dict object handed to serialize_doc
    obj0,       \* SpecSerialize: that object as it was before the first call
    ret,        \* SpecSerialize: the value serialize_doc returned last
    ret1,       \* SpecSerialize: the value the first call returned
    calls,      \* SpecSerialize: number of calls made on obj
    win_in,     \* SpecWindow: the (month, year) given
    win_out     \* SpecWindow: what the window computation produced

vars == <<store, nextId, req, resp, obj, obj0, ret, ret1, calls, win_in, win_out>>

----------------------------------------------------------------------------
(* Python values *)

None == [t |-> "none"]
Str(s) == [t |-> "str", v |-> s]
Num(n) == [t |-> "num", v |-> n]
Date(y, m, d) == [t |-> "date", v |-> <<y, m, d>>]
\* datetime(year, month, day, hour, minute, second, microsecond)
DateTime(y, m, d, hh, mm, ss, us) == [t |-> "datetime", v |-> <<y, m, d, hh, mm, ss, us>>]
Oid(n) == [t |-> "oid", v |-> n]
List(s) == [t |-> "list", v |-> s]
Dict(f) == [t |-> "dict", v |-> f]

\* the empty dict {}
EmptyDict == [k \in {} |-> None]

\* doc.get(k)
Get(doc, k) == IF k \in DOMAIN doc THEN doc[k] ELSE None

\* doc[k] = v
Put(doc, k, v) == [x \in DOMAIN doc \cup {k} |-> IF x = k THEN v ELSE doc[x]]

\* doc.pop(k, None)
Pop(doc, k) == [x \in DOMAIN doc \ {k} |-> doc[x]]

\* Python truthiness of an Optional[int] / Optional[str] argument
Truthy(x) ==
    \/ x.t = "num" /\ x.v # 0
    \/ x.t = "str" /\ x.v # <<>>

----------------------------------------------------------------------------
(* Strings *)

DigitChars == <<"0", "1", "2", "3", "4", "5", "6", "7", "8", "9">>
HexChars == {"0", "1", "2", "3", "4", "5", "6", "7", "8", "9",
             "a", "b", "c", "d", "e", "f", "A", "B", "C", "D", "E", "F"}

RECURSIVE ZeroPad(_, _)
\* n as decimal digits, zero-padded to `width` characters (n >= 0)
ZeroPad(n, width) ==
    IF width = 0 THEN <<>>
    ELSE Append(ZeroPad(n \div 10, width - 1), DigitChars[(n % 10) + 1])

\* date.isoformat() / datetime.isoformat()
isoformat(v) ==
    LET d == v.v
        day == ZeroPad(d[1], 4) \o <<"-">> \o ZeroPad(d[2], 2) \o <<"-">> \o ZeroPad(d[3], 2)
    IN IF v.t = "date" THEN day
       ELSE day \o <<"T">> \o ZeroPad(d[4], 2) \o <<":">> \o ZeroPad(d[5], 2)
                \o <<":">> \o ZeroPad(d[6], 2)
                \o (IF d[7] = 0 THEN <<>> ELSE <<".">> \o ZeroPad(d[7], 6))

\* the hexadecimal form of the n-th ObjectId the store hands out (24 characters)
OidHex(n) == ZeroPad(0, 22) \o ZeroPad(n, 2)

\* str(x) for the values an _id field holds: an ObjectId (held as its 24
\* hexadecimal characters) gives those characters, a str gives itself
PyStr(x) == x.v

----------------------------------------------------------------------------
(* serialize_doc *)

RECURSIVE serialize_doc(_)

\* a plausible slip: new_list.insert(0, ...) instead of new_list.append(...)
new_list_prepend(items) ==
    [i \in 1..Len(items) |->
        LET item == items[Len(items) + 1 - i]
        IN IF item.t = "dict" THEN Dict(serialize_doc(item.v)) ELSE item]

\* the list built for a list-valued field: nested dicts serialized, the rest as is
new_list(items) ==
    [i \in 1..Len(items) |->
        IF items[i].t = "dict" THEN Dict(serialize_doc(items[i].v)) ELSE items[i]]

\* The state of the dict `doc` when serialize_doc(doc) returns.  The function
\* assigns into doc itself and returns doc, so this is at once the returned
\* value and what the caller's object has become.
serialize_doc(doc) ==
    IF DOMAIN doc = {} THEN doc
    ELSE LET d1 == IF Get(doc, "_id").t # "none"
                   THEN Pop(Put(doc, "id", Str(PyStr(doc["_id"]))), "_id")
                   ELSE doc
         IN [k \in DOMAIN d1 |->
                LET v == d1[k]
                IN IF v.t \in {"date", "datetime"} THEN Str(isoformat(v))
                   ELSE IF v.t = "list" THEN List(new_list(v.v))
                   ELSE v]

----------------------------------------------------------------------------
(* Calendar *)

MINYEAR == 1
MAXYEAR == 9999

IsLeap(y) == (y % 4 = 0) /\ ((y % 100 # 0) \/ (y % 400 = 0))

DaysInMonth(y, m) ==
    IF m = 2 THEN (IF IsLeap(y) THEN 29 ELSE 28)
    ELSE IF m \in {4, 6, 9, 11} THEN 30 ELSE 31

\* whether datetime(y, m, d) constructs (it raises ValueError otherwise)
DatetimeOk(y, m, d) ==
    /\ y \in MINYEAR..MAXYEAR
    /\ m \in 1..12
    /\ d \in 1..DaysInMonth(y, m)

\* lexicographic order of <<y, m, d>> dates
DateLess(a, b) ==
    \/ a[1] < b[1]
    \/ a[1] = b[1] /\ a[2] < b[2]
    \/ a[1] = b[1] /\ a[2] = b[2] /\ a[3] < b[3]

RECURSIVE DaysBeforeMonth(_, _)
DaysBeforeMonth(y, m) ==
    IF m = 1 THEN 0 ELSE DaysBeforeMonth(y, m - 1) + DaysInMonth(y, m - 1)

\* date.toordinal(): days since 0001-01-01, plus one
Ordinal(d) ==
    LET y1 == d[1] - 1
    IN y1 * 365 + (y1 \div 4) - (y1 \div 100) + (y1 \div 400)
       + DaysBeforeMonth(d[1], d[2]) + d[3]

Raised == [ok |-> FALSE]

\* the window computation has not run
NotRun == [run |-> FALSE]

\* y = year or utcnow().year; m = month or utcnow().month;
\* start = datetime(y, m, 1); end = datetime(y + 1, 1, 1) if m == 12 else datetime(y, m + 1, 1)
\* Raised when one of the datetime constructions raises.
month_window(month, year, now) ==
    LET y == IF Truthy(year) THEN year.v ELSE now.v[1]
        m == IF Truthy(month) THEN month.v ELSE now.v[2]
    IN IF ~DatetimeOk(y, m, 1) THEN Raised
       ELSE IF m = 12
            THEN (IF DatetimeOk(y + 1, 1, 1)
                  THEN [ok |-> TRUE, y |-> y, m |-> m,
                        start |-> <<y, m, 1>>, end |-> <<y + 1, 1, 1>>]
                  ELSE Raised)
            ELSE (IF DatetimeOk(y, m + 1, 1)
                  THEN [ok |-> TRUE, y |-> y, m |-> m,
                        start |-> <<y, m, 1>>, end |-> <<y, m + 1, 1>>]
                  ELSE Raised)

----------------------------------------------------------------------------
(* Identifiers *)

LowerChar(c) ==
    IF c = "A" THEN "a" ELSE IF c = "B" THEN "b" ELSE IF c = "C" THEN "c"
    ELSE IF c = "D" THEN "d" ELSE IF c = "E" THEN "e" ELSE IF c = "F" THEN "f"
    ELSE c

Lower(s) == [i \in 1..Len(s) |-> LowerChar(s[i])]

\* whether bson's ObjectId(oid) accepts the string: 24 hexadecimal characters
IsObjectIdString(s) == Len(s) = 24 /\ \A i \in 1..Len(s) : s[i] \in HexChars

\* a slip: the string handed to the store unchecked
to_object_id_unchecked(oid) == [ok |-> TRUE, id |-> Oid(Lower(oid))]

\* to_object_id: the ObjectId, or HTTPException(400) (ok = FALSE)
to_object_id(oid) ==
    IF IsObjectIdString(oid) THEN [ok |-> TRUE, id |-> Oid(Lower(oid))]
    ELSE [ok |-> FALSE]

----------------------------------------------------------------------------
(* Schemas *)

ActivityKeys == {"date", "name", "category", "duration", "result", "notes",
                 "income", "expense", "finance_category", "attachments"}

\* the fields of ActivityUpdate
UpdateKeys == ActivityKeys \ {"attachments"}

IsStr(x) == x.t = "str"
IsOptStr(x) == x.t \in {"str", "none"}
IsNonNegNum(x) == x.t = "num" /\ x.v >= 0

\* Attachment: filename and url required, content_type and size optional
AttachmentValid(x) ==
    /\ x.t = "dict"
    /\ {"filename", "url"} \subseteq DOMAIN x.v
    /\ IsStr(x.v["filename"]) /\ IsStr(x.v["url"])

\* Activity(**body) before validation: absent fields take their defaults
ActivityFields(body) ==
    [k \in ActivityKeys |->
        IF k \in DOMAIN body THEN body[k]
        ELSE IF k \in {"income", "expense"} THEN Num(0)
        ELSE IF k = "attachments" THEN List(<<>>)
        ELSE None]

\* the constraints of class Activity
ActivityValid(a) ==
    /\ a["date"].t = "date"
    /\ IsStr(a["name"])
    /\ IsStr(a["category"])
    /\ IsNonNegNum(a["duration"])
    /\ IsOptStr(a["result"])
    /\ IsOptStr(a["notes"])
    /\ (a["income"].t = "none" \/ IsNonNegNum(a["income"]))
    /\ (a["expense"].t = "none" \/ IsNonNegNum(a["expense"]))
    /\ IsOptStr(a["finance_category"])
    /\ a["attachments"].t = "list"
    /\ \A i \in 1..Len(a["attachments"].v) : AttachmentValid(a["attachments"].v[i])

\* ActivityUpdate(**body): every field optional, absent fields None
UpdateFields(body) ==
    [k \in UpdateKeys |-> IF k \in DOMAIN body THEN body[k] ELSE None]

\* the constraints of class ActivityUpdate: types only, no range
UpdateValid(u) ==
    /\ u["date"].t \in {"date", "none"}
    /\ \A k \in {"name", "category", "result", "notes", "finance_category"} : IsOptStr(u[k])
    /\ \A k \in {"duration", "income", "expense"} : u[k].t \in {"num", "none"}

\* a slip: model_dump() without exclude_none
update_data_keep_none(payload) == payload

\* payload.model_dump(exclude_none=True)
update_data(payload) ==
    LET keys == {k \in DOMAIN payload : payload[k].t # "none"}
    IN [k \in keys |-> payload[k]]

----------------------------------------------------------------------------
(* The document store (find / update_one / delete_one / aggregate) *)

RECURSIVE Select(_, _)
\* the elements of sequence s at the positions in set keep, in order
Select(s, keep) ==
    IF s = <<>> THEN <<>>
    ELSE LET rest == Select(Tail(s), {i - 1 : i \in keep \ {1}})
         IN IF 1 \in keep THEN <<Head(s)>> \o rest ELSE rest

\* re.search(pattern, text, re.I) for patterns made of literal characters and "."
RegexSearch(pat, text) ==
    \E off \in 0..(Len(text) - Len(pat)) :
        \A j \in 1..Len(pat) :
            \/ pat[j] = "."
            \/ LowerChar(pat[j]) = LowerChar(text[off + j])

\* {field: {"$regex": search, "$options": "i"}}: only string fields match
RegexField(doc, field, search) ==
    /\ Get(doc, field).t = "str"
    /\ RegexSearch(search.v, doc[field].v)

\* {"date": {"$gte": gte, "$lt": lt}}
DateInRange(doc, gte, lt) ==
    /\ Get(doc, "date").t = "date"
    /\ ~DateLess(doc["date"].v, gte)
    /\ DateLess(doc["date"].v, lt)

NoDate == [on |-> FALSE]

\* whether a document satisfies the query dict
Matches(doc, q) ==
    /\ q.date.on => DateInRange(doc, q.date.gte, q.date.lt)
    /\ q.category.t # "none" => Get(doc, "category") = q.category
    /\ q.search.t # "none" =>
          \/ RegexField(doc, "name", q.search)
          \/ RegexField(doc, "result", q.search)
          \/ RegexField(doc, "notes", q.search)

\* get_documents("activity", query): the matching documents in store order
get_documents(q) == Select(store, {i \in 1..Len(store) : Matches(store[i], q)})

\* positions of the documents whose _id is id
FindById(id) == {i \in 1..Len(store) : store[i]["_id"] = id}

\* {"$set": fields} applied to one document
SetFields(doc, fields) ==
    [k \in DOMAIN doc \cup DOMAIN fields |-> IF k \in DOMAIN fields THEN fields[k] ELSE doc[k]]

\* the injective sequences over a set: the orders a $group stage may emit its groups in
Orderings(S) ==
    {f \in [1..Cardinality(S) -> S] : \A i, j \in 1..Cardinality(S) : f[i] = f[j] => i = j}

\* the distinct values of "$category" among docs
GroupKeys(docs) == {Get(docs[i], "category") : i \in 1..Len(docs)}

CountWhere(docs, key) == Cardinality({i \in 1..Len(docs) : Get(docs[i], "category") = key})

RECURSIVE SumField(_, _)
\* {"$sum": {"$ifNull": ["$field", 0]}}
SumField(docs, field) ==
    IF docs = <<>> THEN 0
    ELSE (IF Get(Head(docs), field).t = "num" THEN Head(docs)[field].v ELSE 0)
         + SumField(Tail(docs), field)

----------------------------------------------------------------------------
(* Dicts built by comprehension: sequences of <<key, value>> in insertion order *)

Unknown == <<"u", "n", "k", "n", "o", "w", "n">>

\* item["_id"] or "unknown"
GroupLabel(key) == IF Truthy(key) THEN key.v ELSE Unknown

\* d[k] = v on an insertion-ordered dict
DictPut(pairs, k, v) ==
    IF \E i \in 1..Len(pairs) : pairs[i][1] = k
    THEN [i \in 1..Len(pairs) |-> IF pairs[i][1] = k THEN <<k, v>> ELSE pairs[i]]
    ELSE Append(pairs, <<k, v>>)

RECURSIVE CategoryDict(_, _)
\* {item["_id"] or "unknown": item["count"] for item in groups}
CategoryDict(docs, order) ==
    IF order = <<>> THEN <<>>
    ELSE LET n == Len(order)
             front == CategoryDict(docs, SubSeq(order, 1, n - 1))
         IN DictPut(front, GroupLabel(order[n]), CountWhere(docs, order[n]))

RECURSIVE SumValues(_)
\* sum(d.values())
SumValues(pairs) == IF pairs = <<>> THEN 0 ELSE Head(pairs)[2] + SumValues(Tail(pairs))

NotAvailable == <<"N", "/", "A">>

\* max(d, key=d.get) if d else 'N/A': the first key holding the largest value
TopCategory(pairs) ==
    IF pairs = <<>> THEN NotAvailable
    ELSE LET i == CHOOSE x \in 1..Len(pairs) :
                     /\ \A y \in 1..Len(pairs) : pairs[y][2] <= pairs[x][2]
                     /\ \A y \in 1..(x - 1) : pairs[y][2] < pairs[x][2]
         IN pairs[i][1]

----------------------------------------------------------------------------
(* Request handlers, as functions of the store *)

\* a slip: `if month and year` where the code has `if month or year`
list_query_both(month, year, category, search, now) ==
    [date |->
        IF Truthy(month) /\ Truthy(year)
        THEN LET w == month_window(month, year, now)
             IN IF w.ok THEN [on |-> TRUE, gte |-> w.start, lt |-> w.end]
                ELSE NoDate
        ELSE NoDate,
     category |-> IF Truthy(category) THEN category ELSE None,
     search |-> IF Truthy(search) THEN search ELSE None]

\* the query dict list_activities builds
list_query(month, year, category, search, now) ==
    [date |->
        IF Truthy(month) \/ Truthy(year)
        THEN LET w == month_window(month, year, now)
             IN IF w.ok THEN [on |-> TRUE, gte |-> w.start, lt |-> w.end]
                ELSE NoDate
        ELSE NoDate,
     category |-> IF Truthy(category) THEN category ELSE None,
     search |-> IF Truthy(search) THEN search ELSE None]

\* what list_activities returns: the matching documents, serialized
list_result(month, year, category, search, now) ==
    LET docs == get_documents(list_query(month, year, category, search, now))
    IN [i \in 1..Len(docs) |-> serialize_doc(docs[i])]

\* the documents the $match stage of dashboard / monthly_recap lets through
window_docs(w) ==
    get_documents([date |-> [on |-> TRUE, gte |-> w.start, lt |-> w.end],
                   category |-> None, search |-> None])

\* the orders in which the $group stage may emit the groups of a request
group_orders(month, year, now) ==
    LET w == month_window(month, year, now)
    IN IF w.ok THEN Orderings(GroupKeys(window_docs(w))) ELSE {<<>>}

\* what dashboard returns; status 500 when window construction raises
dashboard_result(month, year, now, order) ==
    LET w == month_window(month, year, now)
    IN IF ~w.ok THEN [status |-> 500]
       ELSE LET docs == window_docs(w)
            IN [status |-> 200,
                total_activities |-> Len(docs),
                total_income |-> SumField(docs, "income"),
                total_expense |-> SumField(docs, "expense"),
                per_category |-> CategoryDict(docs, order)]

\* what monthly_recap returns; status 500 when window construction raises
recap_result(month, year, now, order) ==
    LET w == month_window(month, year, now)
    IN IF ~w.ok THEN [status |-> 500]
       ELSE LET docs == window_docs(w)
                categories == CategoryDict(docs, order)
                income == SumField(docs, "income")
                expense == SumField(docs, "expense")
            IN [status |-> 200,
                month |-> w.m,
                year |-> w.y,
                categories |-> categories,
                income |-> income,
                expense |-> expense,
                \* "Bulan m/y: Total kegiatan N. Kategori terbanyak: C. Pemasukan I, Pengeluaran E."
                summary |-> [m |-> w.m, y |-> w.y,
                             total |-> SumValues(categories),
                             top |-> TopCategory(categories),
                             income |-> income, expense |-> expense]]

\* f"laporan_{year or utcnow().year}_{month or utcnow().month}"
export_filename(month, year, now) ==
    [y |-> IF Truthy(year) THEN year.v ELSE now.v[1],
     m |-> IF Truthy(month) THEN month.v ELSE now.v[2]]

CsvColumns == <<"date", "name", "category", "duration", "result", "notes",
                "income", "expense", "finance_category">>

\* what export_csv writes: the header row, then one row of cells per activity
csv_rows(month, year, now) ==
    LET activities == list_result(month, year, None, None, now)
    IN <<CsvColumns>> \o
       [i \in 1..Len(activities) |->
           [c \in 1..Len(CsvColumns) |-> Get(activities[i], CsvColumns[c])]]

\* the lines of export_pdf's report: five header lines, then one per activity
report_lines(recap, activities) ==
    << [kind |-> "title"],
       [kind |-> "month", m |-> recap.month, y |-> recap.year],
       [kind |-> "summary", summary |-> recap.summary],
       [kind |-> "blank"],
       [kind |-> "heading"] >> \o
    [i \in 1..Len(activities) |->
        [kind |-> "detail",
         date |-> Get(activities[i], "date"),
         name |-> Get(activities[i], "name"),
         category |-> Get(activities[i], "category"),
         duration |-> Get(activities[i], "duration")]]

----------------------------------------------------------------------------
(* Bounds and the inputs the requests are drawn from *)

\* documents ever inserted (Spec)
MaxDocs == 2
\* documents in the collection the read-only handlers start from (SpecQuery)
MaxStored == 2
\* longest list handed to serialize_doc (SpecSerialize)
MaxItems == 2

sAb == <<"a", "b">>
sC == <<"c">>
sADotB == <<"A", ".", "b">>
sAdm == <<"a", "d", "m">>
sUpperAB == <<"A", "B">>
sDotB == <<".", "b">>
sFile == <<"f">>
sUrl == <<"/", "f">>

\* the values datetime.utcnow() takes
Clock == {DateTime(2024, 3, 5, 10, 0, 0, 0), DateTime(2024, 4, 1, 0, 0, 0, 5)}

Attachment1 == Dict([filename |-> Str(sFile), url |-> Str(sUrl),
                     content_type |-> None, size |-> None])

\* request bodies of POST /api/activities that pass validation
ValidCreateBodies ==
    { [date |-> Date(2024, 3, 5), name |-> Str(sAb), category |-> Str(sAdm),
       duration |-> Num(2), expense |-> Num(5)],
      [date |-> Date(2024, 4, 1), name |-> Str(sC), category |-> Str(<<>>),
       duration |-> Num(0), income |-> Num(1), notes |-> Str(sADotB),
       attachments |-> List(<<Attachment1>>)] }

\* request bodies of POST /api/activities; the added one fails validation
CreateBodies ==
    ValidCreateBodies \cup
    { [date |-> Date(2024, 3, 5), name |-> Str(sAb), category |-> Str(sAdm),
       duration |-> Num(-1)] }

\* request bodies of PUT /api/activities/{id} that supply a field
SupplyingUpdateBodies ==
    { [duration |-> Num(-1)],
      [category |-> Str(Unknown), date |-> Date(2024, 4, 1)] }

\* request bodies of PUT /api/activities/{id}
UpdateBodies == SupplyingUpdateBodies \cup {EmptyDict, [notes |-> None]}

MalformedIds == {<<"x">>, ZeroPad(0, 23) \o <<"g">>}

\* identifier strings: the stored ids, one well-formed id never stored, two malformed
IdStrings == {OidHex(n) : n \in 1..(MaxDocs + 1)} \cup MalformedIds

\* (month, year, category, search) query parameters of GET /api/activities
ListInputs ==
    { <<m, y, c, s>> : m \in {None, Num(3)}, y \in {None, Num(2024)},
                       c \in {None, Str(sAdm)}, s \in {None, Str(sUpperAB)} }
    \cup
    { <<Num(4), Num(2024), None, None>>,
      <<Num(0), None, None, None>>,
      <<Num(13), None, None, None>>,
      <<Num(13), None, Str(sAdm), None>>,
      <<None, None, Str(<<>>), Str(<<>>)>>,
      <<None, None, None, Str(sDotB)>> }

\* (month, year) parameters of the dashboard, recap and export requests
MonthYears ==
    { <<None, None>>, <<Num(3), None>>, <<Num(4), Num(2024)>>, <<Num(0), Num(2024)>>,
      <<Num(13), None>>, <<Num(12), Num(9999)>> }

\* the clock reading a request records: None when the handler never reads the clock
ClockRead(read, now) == IF read THEN now ELSE None

----------------------------------------------------------------------------
(* The handlers as actions *)

StoreVars == <<store, nextId>>
SerializeVars == <<obj, obj0, ret, ret1, calls>>
WindowVars == <<win_in, win_out>>

\* the document create_document inserts for a validated Activity
created_doc(a, n) == Put(a, "_id", Oid(OidHex(n)))

\* the document after update_one(..., {"$set": data + updated_at})
updated_doc(doc, data, now) == SetFields(doc, Put(data, "updated_at", now))

\* the first position in the collection holding _id = id (FindById(id) not empty)
FirstById(id) == CHOOSE x \in FindById(id) : \A y \in FindById(id) : x <= y

\* POST /api/activities
create_activity(body) ==
    LET a == ActivityFields(body)
    IN /\ req' = [op |-> "create", body |-> body]
       /\ IF ~ActivityValid(a)
          THEN /\ resp' = [status |-> 422]
               /\ UNCHANGED StoreVars
          ELSE /\ nextId <= MaxDocs
               /\ store' = Append(store, created_doc(a, nextId))
               /\ nextId' = nextId + 1
               /\ resp' = [status |-> 200, id |-> OidHex(nextId)]
       /\ UNCHANGED <<SerializeVars, WindowVars>>

\* GET /api/activities/{activity_id}
get_activity(activity_id) ==
    LET oid == to_object_id(activity_id)
    IN /\ req' = [op |-> "get", id |-> activity_id]
       /\ resp' = IF ~oid.ok THEN [status |-> 400]
                  ELSE IF FindById(oid.id) = {} THEN [status |-> 404]
                  ELSE [status |-> 200, doc |-> serialize_doc(store[FirstById(oid.id)])]
       /\ UNCHANGED <<StoreVars, SerializeVars, WindowVars>>

\* PUT /api/activities/{activity_id}
update_activity(activity_id, body, now) ==
    LET payload == UpdateFields(body)
        data == update_data(payload)
        oid == to_object_id(activity_id)
    IN /\ UpdateValid(payload)
       /\ req' = [op |-> "update", id |-> activity_id, body |-> body,
                  now |-> ClockRead(DOMAIN data # {}, now)]
       /\ IF DOMAIN data = {}
          THEN /\ resp' = [status |-> 200, updated |-> FALSE]
               /\ UNCHANGED StoreVars
          ELSE IF ~oid.ok
          THEN /\ resp' = [status |-> 400]
               /\ UNCHANGED StoreVars
          ELSE IF FindById(oid.id) = {}
          THEN /\ resp' = [status |-> 200, updated |-> FALSE]
               /\ UNCHANGED StoreVars
          ELSE LET i == FirstById(oid.id)
                   new == updated_doc(store[i], data, now)
               IN /\ store' = [store EXCEPT ![i] = new]
                  /\ nextId' = nextId
                  /\ resp' = [status |-> 200, updated |-> (new # store[i])]
       /\ UNCHANGED <<SerializeVars, WindowVars>>

\* DELETE /api/activities/{activity_id}
delete_activity(activity_id) ==
    LET oid == to_object_id(activity_id)
    IN /\ req' = [op |-> "delete", id |-> activity_id]
       /\ IF ~oid.ok
          THEN /\ resp' = [status |-> 400]
               /\ UNCHANGED StoreVars
          ELSE IF FindById(oid.id) = {}
          THEN /\ resp' = [status |-> 200, deleted |-> FALSE]
               /\ UNCHANGED StoreVars
          ELSE /\ store' = Select(store, (1..Len(store)) \ {FirstById(oid.id)})
               /\ nextId' = nextId
               /\ resp' = [status |-> 200, deleted |-> TRUE]
       /\ UNCHANGED <<SerializeVars, WindowVars>>

\* whether `year or utcnow().year` / `month or utcnow().month` reads the clock
DefaultsReadClock(month, year) == ~(Truthy(month) /\ Truthy(year))

\* GET /api/activities
list_activities(month, year, category, search, now) ==
    /\ req' = [op |-> "list", month |-> month, year |-> year, category |-> category,
               search |-> search,
               now |-> ClockRead((Truthy(month) \/ Truthy(year))
                                 /\ DefaultsReadClock(month, year), now)]
    /\ resp' = [status |-> 200, docs |-> list_result(month, year, category, search, now)]
    /\ UNCHANGED <<StoreVars, SerializeVars, WindowVars>>

\* GET /api/dashboard
dashboard(month, year, now, order) ==
    /\ req' = [op |-> "dashboard", month |-> month, year |-> year,
               now |-> ClockRead(DefaultsReadClock(month, year), now)]
    /\ resp' = dashboard_result(month, year, now, order)
    /\ UNCHANGED <<StoreVars, SerializeVars, WindowVars>>

\* POST /api/recap
monthly_recap(month, year, now, order) ==
    /\ req' = [op |-> "recap", month |-> month, year |-> year,
               now |-> ClockRead(DefaultsReadClock(month, year), now)]
    /\ resp' = recap_result(month, year, now, order)
    /\ UNCHANGED <<StoreVars, SerializeVars, WindowVars>>

\* GET /api/export/csv
export_csv(month, year, now) ==
    /\ req' = [op |-> "csv", month |-> month, year |-> year,
               now |-> ClockRead(DefaultsReadClock(month, year), now)]
    /\ resp' = [status |-> 200, rows |-> csv_rows(month, year, now),
                filename |-> export_filename(month, year, now)]
    /\ UNCHANGED <<StoreVars, SerializeVars, WindowVars>>

\* GET /api/export/pdf
export_pdf(month, year, now, order) ==
    LET recap == recap_result(month, year, now, order)
    IN /\ req' = [op |-> "pdf", month |-> month, year |-> year,
                  now |-> ClockRead(DefaultsReadClock(month, year), now)]
       /\ resp' = IF recap.status # 200 THEN [status |-> 500]
                  ELSE [status |-> 200,
                        lines |-> report_lines(recap, list_result(month, year, None, None, now)),
                        filename |-> export_filename(month, year, now)]
       /\ UNCHANGED <<StoreVars, SerializeVars, WindowVars>>

----------------------------------------------------------------------------
(* Spec: the handlers that address one activity, from an empty collection *)

IdleRequest ==
    /\ req = [op |-> "none"]
    /\ resp = [status |-> 0]

IdleSerialize ==
    /\ obj = EmptyDict
    /\ obj0 = EmptyDict
    /\ ret = EmptyDict
    /\ ret1 = EmptyDict
    /\ calls = 0

IdleWindow ==
    /\ win_in = <<None, None>>
    /\ win_out = NotRun

Init ==
    /\ store = <<>>
    /\ nextId = 1
    /\ IdleRequest
    /\ IdleSerialize
    /\ IdleWindow

Next ==
    \/ \E body \in CreateBodies : create_activity(body)
    \/ \E id \in IdStrings : get_activity(id)
    \/ \E id \in IdStrings, body \in UpdateBodies, now \in Clock :
          update_activity(id, body, now)
    \/ \E id \in IdStrings : delete_activity(id)

Spec == Init /\ [][Next]_vars

----------------------------------------------------------------------------
(* SpecQuery: the read-only handlers over the collections Spec produces *)

\* when the stored documents that were updated had their update
StoredAt == DateTime(2024, 3, 5, 10, 0, 0, 0)

\* the documents the handlers of Spec leave under the n-th id: created from a
\* valid body, and possibly updated once by a body that supplies a field
StoredDocs(n) ==
    LET fresh == {created_doc(ActivityFields(b), n) : b \in ValidCreateBodies}
    IN fresh \cup
       { updated_doc(d, update_data(UpdateFields(u)), StoredAt) :
            d \in fresh, u \in SupplyingUpdateBodies }

\* the collections of at most MaxStored documents, the i-th holding the i-th id
StoredCollections ==
    UNION { {s \in [1..n -> UNION {StoredDocs(i) : i \in 1..n}] :
                \A i \in 1..n : s[i] \in StoredDocs(i)} : n \in 0..MaxStored }

InitQuery ==
    /\ store \in StoredCollections
    /\ nextId = Len(store) + 1
    /\ IdleRequest
    /\ IdleSerialize
    /\ IdleWindow

NextQuery ==
    \/ \E q \in ListInputs, now \in Clock :
          list_activities(q[1], q[2], q[3], q[4], now)
    \/ \E my \in MonthYears, now \in Clock :
          \E order \in group_orders(my[1], my[2], now) : dashboard(my[1], my[2], now, order)
    \/ \E my \in MonthYears, now \in Clock :
          \E order \in group_orders(my[1], my[2], now) : monthly_recap(my[1], my[2], now, order)
    \/ \E my \in MonthYears, now \in Clock : export_csv(my[1], my[2], now)
    \/ \E my \in MonthYears, now \in Clock :
          \E order \in group_orders(my[1], my[2], now) : export_pdf(my[1], my[2], now, order)

SpecQuery == InitQuery /\ [][NextQuery]_vars

----------------------------------------------------------------------------
(* SpecSerialize: serialize_doc called on one dict, then on what it returned *)

Absent == [t |-> "absent"]

\* the dict holding the fields of f that are not Absent
Strip(f) == [k \in {x \in DOMAIN f : f[x].t # "absent"} |-> f[k]]

\* every sequence over S of length at most n
SeqsUpTo(S, n) == UNION {[1..k -> S] : k \in 0..n}

\* a nested record with a native _id, a date, and a list of its own
Attachment2 ==
    Dict([_id |-> Oid(OidHex(7)), filename |-> Str(sUrl), uploaded |-> Date(2024, 3, 5),
          tags |-> List(<<Dict([_id |-> Oid(OidHex(8)), filename |-> Str(sC)]), Str(sAb)>>)])

\* what a list field may hold: nested records and values that are not records
ListItems == {Attachment1, Attachment2, Str(sFile), Date(2024, 4, 1)}

\* the records handed to serialize_doc
SerializeInputs ==
    {EmptyDict} \cup
    { Strip([_id |-> i, date |-> d, attachments |-> a, name |-> Str(sAb), notes |-> None]) :
        i \in {Absent, None, Oid(OidHex(1)), Str(sAb)},
        d \in {Absent, Date(2024, 3, 5), DateTime(2024, 4, 1, 0, 0, 0, 5),
               Str(isoformat(Date(2024, 3, 5)))},
        a \in {Absent} \cup {List(l) : l \in SeqsUpTo(ListItems, MaxItems)} }

InitSerialize ==
    /\ obj \in SerializeInputs
    /\ obj0 = obj
    /\ ret = EmptyDict
    /\ ret1 = EmptyDict
    /\ calls = 0
    /\ store = <<>>
    /\ nextId = 1
    /\ IdleRequest
    /\ IdleWindow

\* r1 = serialize_doc(obj): obj itself is assigned into and returned
serialize_first ==
    /\ calls = 0
    /\ obj' = serialize_doc(obj)
    /\ ret' = obj'
    /\ ret1' = obj'
    /\ calls' = 1
    /\ UNCHANGED <<obj0, StoreVars, req, resp, WindowVars>>

\* r2 = serialize_doc(r1), r1 being the same object as obj
serialize_again ==
    /\ calls = 1
    /\ obj' = serialize_doc(ret)
    /\ ret' = obj'
    /\ calls' = 2
    /\ UNCHANGED <<obj0, ret1, StoreVars, req, resp, WindowVars>>

NextSerialize == serialize_first \/ serialize_again

SpecSerialize == InitSerialize /\ [][NextSerialize]_vars

----------------------------------------------------------------------------
(* SpecWindow: the month window of every month of a set of years *)

WindowYears == {1, 4, 100, 400, 1900, 2000, 2023, 2024, 9998, 9999}

InitWindow ==
    /\ win_in \in {<<Num(m), Num(y)>> : m \in 1..12, y \in WindowYears}
    /\ win_out = NotRun
    /\ store = <<>>
    /\ nextId = 1
    /\ IdleRequest
    /\ IdleSerialize

\* the window computation of list_activities / dashboard / monthly_recap
resolve_window(now) ==
    /\ win_out = NotRun
    /\ win_out' = month_window(win_in[1], win_in[2], now)
    /\ UNCHANGED <<win_in, StoreVars, req, resp, SerializeVars>>

NextWindow == \E now \in Clock : resolve_window(now)

SpecWindow == InitWindow /\ [][NextWindow]_vars

----------------------------------------------------------------------------
(* Claims about the handlers that address one activity (Spec) *)

\* the fields a request body supplies with a non-null value
Supplied(body) == {k \in DOMAIN body : body[k].t # "none"}

\* whether the document is the one the identifier string names
Names(idString, doc) == IsObjectIdString(idString) /\ doc["_id"].v = Lower(idString)

\* C1: an update changes, in the activity it names, only the fields the payload
\* supplies with a non-null value and updated_at, which it sets to the time of
\* the update; every other field and every other record stays as it was; a
\* payload that supplies nothing answers updated = false and changes nothing.
C1_PartialUpdateFrame ==
    [][ req'.op = "update" =>
          LET sup == Supplied(req'.body)
          IN IF sup = {}
             THEN /\ store' = store
                  /\ resp' = [status |-> 200, updated |-> FALSE]
             ELSE /\ Len(store') = Len(store)
                  /\ \A i \in 1..Len(store) :
                        IF Names(req'.id, store[i])
                        THEN /\ DOMAIN store'[i] = DOMAIN store[i] \cup sup \cup {"updated_at"}
                             /\ \A k \in DOMAIN store[i] \ (sup \cup {"updated_at"}) :
                                   store'[i][k] = store[i][k]
                             /\ store'[i]["updated_at"] = req'.now
                        ELSE store'[i] = store[i]
      ]_vars

\* an update of one of two stored activities that had been updated before:
\* both update bodies have acted on it and its updated_at is this update's time
C1_Witness ==
    /\ req.op = "update"
    /\ resp = [status |-> 200, updated |-> TRUE]
    /\ Len(store) = 2
    /\ \E i \in 1..Len(store) :
          /\ Names(req.id, store[i])
          /\ store[i]["duration"] = Num(-1)
          /\ store[i]["category"] = Str(Unknown)
          /\ store[i]["updated_at"] = req.now
          /\ store[i]["attachments"] # List(<<>>)

\* C2: every stored activity has duration >= 0, income >= 0 and expense >= 0.
C2_NeverNegative ==
    \A i \in 1..Len(store) :
        \A k \in {"duration", "income", "expense"} :
            store[i][k].t = "num" => store[i][k].v >= 0

\* C7 as stated: a get, update or delete whose identifier is malformed is
\* answered 400, whatever the payload.
C7_MalformedAlwaysRejected ==
    (req.op \in {"get", "update", "delete"} /\ ~IsObjectIdString(req.id))
        => resp.status = 400

\* C7 as amended: a get, update or delete whose identifier is malformed never
\* changes the store; it is answered 400, except an update whose payload
\* supplies no field, which is answered 200 with updated = false.
C7_MalformedRejectedUnlessEmptyUpdate ==
    [][ (req'.op \in {"get", "update", "delete"} /\ ~IsObjectIdString(req'.id)) =>
          /\ store' = store
          /\ nextId' = nextId
          /\ IF req'.op = "update" /\ Supplied(req'.body) = {}
             THEN resp' = [status |-> 200, updated |-> FALSE]
             ELSE resp' = [status |-> 400]
      ]_vars

\* an update that supplies a field, under a malformed identifier, rejected
\* while the collection holds activities
C7_Witness ==
    /\ req.op = "update"
    /\ req.id \in MalformedIds
    /\ Supplied(req.body) # {}
    /\ resp.status = 400
    /\ Len(store) = 2

----------------------------------------------------------------------------
(* Claims about the read-only handlers (SpecQuery) *)

\* whether the request gives a month or a year (zero counts as not given)
DateGiven(r) == Truthy(r.month) \/ Truthy(r.year)

\* the year and month the request means, the missing one taken from the clock
EffectiveYear(r) == IF Truthy(r.year) THEN r.year.v ELSE r.now.v[1]
EffectiveMonth(r) == IF Truthy(r.month) THEN r.month.v ELSE r.now.v[2]

\* whether the first day of the month and of the month after it are dates
WindowConstructs(y, m) == y \in 1..9999 /\ m \in 1..12 /\ ~(y = 9999 /\ m = 12)

\* the document's date lies in month m of year y
InMonth(doc, y, m) == doc["date"].t = "date" /\ doc["date"].v[1] = y /\ doc["date"].v[2] = m

\* the search expression is found, case-insensitively, in name, result or notes
SearchHit(doc, search) ==
    \E f \in {"name", "result", "notes"} :
        doc[f].t = "str" /\ RegexSearch(search.v, doc[f].v)

CategoryAndSearchHold(doc, r) ==
    /\ Truthy(r.category) => doc["category"] = r.category
    /\ Truthy(r.search) => SearchHit(doc, r.search)

\* the identifiers of the stored documents at the positions in keep, in order
IdsAt(keep) ==
    LET docs == Select(store, keep) IN [i \in 1..Len(docs) |-> docs[i]["_id"].v]

ReturnedIds == [i \in 1..Len(resp.docs) |-> resp.docs[i]["id"].v]

\* C3 as stated: list_activities returns exactly the stored records that
\* satisfy every condition given: date in the month meant whenever a month or
\* a year is given, category equal, search matching.
C3_ListReturnsAllConditions ==
    req.op = "list" =>
        ReturnedIds = IdsAt({i \in 1..Len(store) :
            /\ DateGiven(req) => InMonth(store[i], EffectiveYear(req), EffectiveMonth(req))
            /\ CategoryAndSearchHold(store[i], req)})

\* C3 as amended: list_activities returns, in store order, exactly the stored
\* records that satisfy every condition given (zero and the empty string count
\* as not given): date in the month meant when a month or a year is given and
\* the window of that month can be constructed (no date condition when it
\* cannot: month outside 1..12, year outside 1..9999, December 9999); category
\* equal; search, a regular expression, found case-insensitively in name,
\* result or notes.  With nothing given it returns every record.
C3_ListReturnsConditionsFailOpen ==
    req.op = "list" =>
        /\ resp.status = 200
        /\ ReturnedIds = IdsAt({i \in 1..Len(store) :
              /\ (DateGiven(req) /\ WindowConstructs(EffectiveYear(req), EffectiveMonth(req)))
                    => InMonth(store[i], EffectiveYear(req), EffectiveMonth(req))
              /\ CategoryAndSearchHold(store[i], req)})
        /\ (~DateGiven(req) /\ ~Truthy(req.category) /\ ~Truthy(req.search))
              => Len(resp.docs) = Len(store)

\* a listing by month (year from the clock), category and search together that
\* returns one of two stored records
C3_Witness ==
    /\ req.op = "list"
    /\ Truthy(req.month) /\ ~Truthy(req.year)
    /\ Truthy(req.category) /\ Truthy(req.search)
    /\ Len(store) = 2
    /\ Len(resp.docs) = 1

\* C4: when every record has a non-null category, the dashboard's
\* total_activities equals the sum of the values of per_category.
C4_TotalIsSumOfCategories ==
    ( /\ req.op = "dashboard"
      /\ resp.status = 200
      /\ \A i \in 1..Len(store) : store[i]["category"].t # "none" )
        => resp.total_activities = SumValues(resp.per_category)

\* whether the request attempts the window of a month or year out of range
WindowFails(r) ==
    /\ r.op \in {"list", "csv"} => DateGiven(r)
    /\ ~(EffectiveYear(r) \in 1..9999 /\ EffectiveMonth(r) \in 1..12)

\* C6: a request of a month/year endpoint whose window cannot be constructed
\* (a month outside 1..12, say) still completes.
C6_WindowFailureFailsOpen ==
    (req.op \in {"list", "dashboard", "recap", "csv", "pdf"} /\ WindowFails(req))
        => resp.status = 200

\* C10: the text report has as many detail lines as the recap summary in its
\* header counts activities.
C10_DetailLinesMatchRecap ==
    (req.op = "pdf" /\ resp.status = 200) =>
        Cardinality({i \in 1..Len(resp.lines) : resp.lines[i].kind = "detail"})
            = resp.lines[3].summary.total

----------------------------------------------------------------------------
(* Claims about serialize_doc (SpecSerialize) *)

\* what identifies a list element across serialization: a nested record by its
\* filename, any other element by itself
ItemMark(item) ==
    IF item.t = "dict" THEN [dict |-> TRUE, filename |-> Get(item.v, "filename")] ELSE item

\* C8: serializing what serialize_doc returned gives the same value again, and
\* the elements of every list field stay in their order.
C8_Idempotent ==
    /\ calls = 2 => ret = ret1
    /\ calls >= 1 =>
          \A k \in DOMAIN obj0 :
              obj0[k].t = "list" =>
                  /\ k \in DOMAIN ret1
                  /\ ret1[k].t = "list"
                  /\ Len(ret1[k].v) = Len(obj0[k].v)
                  /\ \A i \in 1..Len(obj0[k].v) :
                        ItemMark(ret1[k].v[i]) = ItemMark(obj0[k].v[i])

\* serialized twice: a record with a native _id, a date and two different
\* nested records in its list
C8_Witness ==
    /\ calls = 2
    /\ Get(obj0, "_id").t = "oid"
    /\ Get(obj0, "date").t = "date"
    /\ Get(obj0, "attachments") = List(<<Attachment2, Attachment1>>)
    /\ ret["attachments"].v[1].v["tags"].v[1] = Dict([id |-> Str(OidHex(8)), filename |-> Str(sC)])

\* C9: the record handed to serialize_doc is as it was before the call.
C9_ArgumentUnchanged == calls >= 1 => obj = obj0

----------------------------------------------------------------------------
(* Claim about the month window (SpecWindow) *)

\* C5: for every month 1..12 of every year 1..9999 the window is computed,
\* from the first day of the month to the first day of the next (January of
\* the next year after December), start < end, the month's days apart.
C5_WindowAlwaysResolves ==
    win_out # NotRun =>
        LET m == win_in[1].v
            y == win_in[2].v
        IN /\ win_out.ok
           /\ win_out.start = <<y, m, 1>>
           /\ win_out.end = (IF m = 12 THEN <<y + 1, 1, 1>> ELSE <<y, m + 1, 1>>)
           /\ DateLess(win_out.start, win_out.end)
           /\ Ordinal(win_out.end) - Ordinal(win_out.start) = DaysInMonth(y, m)

====
